---- MODULE Spec2Model ----
(***************************************************************************)
(* A model of the LLM Knowledge Extractor service: the keyword heuristic   *)
(* (app/services/keywords.py), the storage backends (app/services/db.py)   *)
(* and the analyze / search request handlers (app/routers).                *)
(*                                                                         *)
(* Python strings are modelled as sequences of one-character strings, so   *)
(* that lower(), strip(), the word regex and string comparison are         *)
(* computed character by character, as the interpreter computes them.      *)
(***************************************************************************)
EXTENDS Integers, Sequences, FiniteSets, TLC

VARIABLES
    kwText,         \* keywords.py: the argument of extract_top3_nouns_like
    kwTop,          \* keywords.py: the list it returned
    kwPc,           \* "call" before the function ran, "done" after it returned
    confText,       \* analyze.py: the text argument of _confidence_heuristic
    confOk,         \* analyze.py: its llm_ok argument
    confOut,        \* analyze.py: the value it returned, in ten-thousandths
    confPc,         \* "call" before the function ran, "done" after it returned
    USE_INMEM_DB,   \* config.py: Settings.USE_INMEM_DB, fixed at start-up
    rows,           \* db.py: InMemoryDB._rows of every InMemoryDB instance
    table,          \* db.py: the rows of the remote table SupabaseDB talks to
    issued,         \* the identifiers uuid.uuid4() / the remote store handed out
    inserted,       \* per store, the rows insert_analysis returned, in call order
    lastCall,       \* the last storage call and what it returned or raised
    thr,            \* the threads that run InMemoryDB methods step by step
    req,            \* routers/analyze.py: the analyze request being handled
    response        \* routers: the last HTTP response sent

vars == <<kwText, kwTop, kwPc, confText, confOk, confOut, confPc, USE_INMEM_DB, rows, table, issued, inserted, lastCall, thr,
          req, response>>

kwVars == <<kwText, kwTop, kwPc>>
confVars == <<confText, confOk, confOut, confPc>>
dbVars == <<USE_INMEM_DB, rows, table, issued, inserted, lastCall>>
httpVars == <<req, response>>

---------------------------------------------------------------------------
(* Characters and the str methods the code calls.                          *)

UPPER ==
    << "A","B","C","D","E","F","G","H","I","J","K","L","M",
       "N","O","P","Q","R","S","T","U","V","W","X","Y","Z" >>

LOWER ==
    << "a","b","c","d","e","f","g","h","i","j","k","l","m",
       "n","o","p","q","r","s","t","u","v","w","x","y","z" >>

\* The characters of the model in code point order (what str comparison uses).
CODEPOINTS ==
    << "\t", "\n", " ", "'", "-", "." >> \o UPPER \o LOWER

WHITESPACE == { "\t", "\n", " " }

IndexIn(seq, c) == CHOOSE i \in 1..Len(seq) : seq[i] = c

IsUpperChar(c) == \E i \in 1..Len(UPPER) : UPPER[i] = c

IsLowerChar(c) == \E i \in 1..Len(LOWER) : LOWER[i] = c

IsAlpha(c) == IsUpperChar(c) \/ IsLowerChar(c)

Ord(c) == IndexIn(CODEPOINTS, c)

LowerChar(c) == IF IsUpperChar(c) THEN LOWER[IndexIn(UPPER, c)] ELSE c

\* str.lower()
Lower(s) == [i \in 1..Len(s) |-> LowerChar(s[i])]

RECURSIVE LStrip(_)
\* str.lstrip()
LStrip(s) ==
    IF s # <<>> /\ Head(s) \in WHITESPACE THEN LStrip(Tail(s)) ELSE s

RECURSIVE RStripSet(_, _)
\* str.rstrip(chars)
RStripSet(s, chars) ==
    IF s # <<>> /\ s[Len(s)] \in chars
    THEN RStripSet(SubSeq(s, 1, Len(s) - 1), chars)
    ELSE s

\* str.strip()
Strip(s) == RStripSet(LStrip(s), WHITESPACE)

\* str.endswith(suffix)
EndsWith(s, suffix) ==
    /\ Len(s) >= Len(suffix)
    /\ SubSeq(s, Len(s) - Len(suffix) + 1, Len(s)) = suffix

\* str.islower(): at least one cased character and no uppercase one
IsLowerStr(s) ==
    /\ \E i \in 1..Len(s) : IsLowerChar(s[i])
    /\ \A i \in 1..Len(s) : ~IsUpperChar(s[i])

RECURSIVE StrLess(_, _)
\* a < b on str: lexicographic by code point, a proper prefix is smaller
StrLess(a, b) ==
    IF b = <<>> THEN FALSE
    ELSE IF a = <<>> THEN TRUE
    ELSE IF Head(a) # Head(b) THEN Ord(Head(a)) < Ord(Head(b))
    ELSE StrLess(Tail(a), Tail(b))

\* len(s.split()): the number of maximal runs of non-whitespace characters, that
\* is of the positions where such a run starts (inWord: a run is under way
\* before s).
SplitCount(s, inWord) ==
    Cardinality({ i \in 1..Len(s) :
                    /\ s[i] \notin WHITESPACE
                    /\ IF i = 1 THEN ~inWord ELSE s[i - 1] \in WHITESPACE })

RECURSIVE Join(_)
\* " ".join(words)
Join(words) ==
    IF words = <<>> THEN <<>>
    ELSE IF Len(words) = 1 THEN words[1]
    ELSE words[1] \o <<" ">> \o Join(Tail(words))

Min(a, b) == IF a <= b THEN a ELSE b

\* The elements of a sequence.
Range(seq) == { seq[i] : i \in 1..Len(seq) }

---------------------------------------------------------------------------
(* app/services/keywords.py                                                *)

STOPWORDS ==
    { <<"a">>, <<"a","b","o","u","t">>, <<"a","b","o","v","e">>, <<"a","f","t","e","r">>,
      <<"a","g","a","i","n">>, <<"a","m">>, <<"a","n">>, <<"a","n","d">>, <<"a","r","e">>,
      <<"a","s">>, <<"a","t">>, <<"b","e">>, <<"b","e","c","a","u","s","e">>, <<"b","e","e","n">>,
      <<"b","e","f","o","r","e">>, <<"b","e","i","n","g">>, <<"b","e","l","o","w">>,
      <<"b","e","t","w","e","e","n">>, <<"b","o","t","h">>, <<"b","u","t">>, <<"b","y">>,
      <<"c","a","n">>, <<"c","o","u","l","d">>, <<"d">>, <<"d","i","d">>, <<"d","o">>,
      <<"d","o","e","s">>, <<"d","o","n">>, <<"d","o","n","e">>, <<"d","o","w","n">>,
      <<"d","u","r","i","n","g">>, <<"e","a","c","h">>, <<"e","l","s","e">>, <<"f","e","w">>,
      <<"f","o","r">>, <<"f","r","o","m">>, <<"f","u","r","t","h","e","r">>, <<"h","a","d">>,
      <<"h","a","s">>, <<"h","a","v","e">>, <<"h","a","v","i","n","g">>, <<"h","e">>,
      <<"h","e","r">>, <<"h","e","r","e">>, <<"h","i","s">>, <<"h","o","w">>, <<"i">>, <<"i","f">>,
      <<"i","n">>, <<"i","n","t","o">>, <<"i","s">>, <<"i","t">>, <<"i","t","s">>, <<"l","l">>,
      <<"m">>, <<"m","a","y">>, <<"m","i","g","h","t">>, <<"m","i","n","e">>, <<"m","o","r","e">>,
      <<"m","o","s","t">>, <<"m","u","s","t">>, <<"m","y">>, <<"n","o">>, <<"n","o","t">>,
      <<"n","o","w">>, <<"o">>, <<"o","f">>, <<"o","f","f">>, <<"o","n">>, <<"o","n","c","e">>,
      <<"o","n","l","y">>, <<"o","r">>, <<"o","t","h","e","r">>, <<"o","u","r">>,
      <<"o","u","r","s">>, <<"o","u","t">>, <<"o","v","e","r">>, <<"o","w","n">>, <<"r","e">>,
      <<"s">>, <<"s","a","m","e">>, <<"s","h","a","l","l">>, <<"s","h","e">>,
      <<"s","h","o","u","l","d">>, <<"s","h","o","u","l","d","n">>, <<"s","o">>,
      <<"s","o","m","e">>, <<"s","u","c","h">>, <<"t">>, <<"t","h","a","n">>, <<"t","h","a","t">>,
      <<"t","h","e">>, <<"t","h","e","i","r">>, <<"t","h","e","i","r","s">>, <<"t","h","e","m">>,
      <<"t","h","e","n">>, <<"t","h","e","r","e">>, <<"t","h","e","s","e">>, <<"t","h","e","y">>,
      <<"t","h","i","s">>, <<"t","h","o","s","e">>, <<"t","o">>, <<"t","o","o">>,
      <<"u","n","d","e","r">>, <<"u","n","t","i","l">>, <<"u","p">>, <<"u","s">>, <<"v","e">>,
      <<"v","e","r","y">>, <<"w","a","s">>, <<"w","e">>, <<"w","e","r","e">>, <<"w","h","a","t">>,
      <<"w","h","e","n">>, <<"w","h","e","r","e">>, <<"w","h","i","c","h">>,
      <<"w","h","i","l","e">>, <<"w","h","o">>, <<"w","h","o","m">>, <<"w","h","o","s","e">>,
      <<"w","h","y">>, <<"w","i","l","l">>, <<"w","i","t","h">>, <<"w","o","u","l","d">>, <<"y">>,
      <<"y","e","s">>, <<"y","o","u">>, <<"y","o","u","r">>, <<"y","o","u","r","s">> }

COMMON_VERBS ==
    { <<"a","c","c","e","p","t">>, <<"a","d","d">>, <<"a","n","a","l","y","z","e">>,
      <<"b","u","i","l","d">>, <<"c","a","l","l">>, <<"c","h","o","o","s","e">>,
      <<"c","l","a","s","s","i","f","y">>, <<"c","o","n","t","a","i","n","e","r","i","z","e">>,
      <<"c","r","e","a","t","e">>, <<"d","e","p","l","o","y">>, <<"d","e","s","i","g","n">>,
      <<"e","x","t","r","a","c","t">>, <<"f","e","t","c","h">>, <<"f","o","c","u","s">>,
      <<"g","e","n","e","r","a","t","e">>, <<"h","a","n","d","l","e">>,
      <<"i","m","p","l","e","m","e","n","t">>, <<"i","n","c","l","u","d","e">>,
      <<"i","n","t","e","g","r","a","t","e">>, <<"m","a","k","e">>, <<"p","r","e","f","e","r">>,
      <<"p","r","o","c","e","s","s">>, <<"p","r","o","v","i","d","e">>,
      <<"r","e","t","u","r","n">>, <<"r","u","n">>, <<"s","c","a","l","e">>,
      <<"s","c","o","r","e">>, <<"s","e","a","r","c","h">>, <<"s","e","n","d">>,
      <<"s","t","o","r","e">>, <<"s","u","p","p","o","r","t">>, <<"t","e","s","t">>,
      <<"u","s","e">>, <<"v","i","e","w">> }


\* _WORD_RE's classes: [A-Za-z] and [A-Za-z\-']
IsWordChar(c) == IsAlpha(c) \/ c = "-" \/ c = "'"

RECURSIVE RunEnd(_, _)
\* The last index of the maximal run of word characters that holds index j.
RunEnd(s, j) ==
    IF j + 1 <= Len(s) /\ IsWordChar(s[j + 1]) THEN RunEnd(s, j + 1) ELSE j

RECURSIVE FindAllFrom(_, _)
\* _WORD_RE.findall(s), scanning from index i: leftmost, greedy, non-overlapping
FindAllFrom(s, i) ==
    IF i > Len(s) THEN <<>>
    ELSE IF IsAlpha(s[i]) /\ i + 1 <= Len(s) /\ IsWordChar(s[i + 1])
    THEN LET j == RunEnd(s, i + 1)
         IN  <<SubSeq(s, i, j)>> \o FindAllFrom(s, j + 1)
    ELSE FindAllFrom(s, i + 1)

WORD_RE_findall(s) == FindAllFrom(s, 1)

\* Lines 78-80: lower, strip trailing apostrophes, strip a possessive.
\* (The curly apostrophe never reaches here: _WORD_RE matches ASCII only.)
Base(tok) ==
    LET b == RStripSet(Lower(tok), {"'"})
    IN  IF EndsWith(b, <<"'", "s">>) THEN SubSeq(b, 1, Len(b) - 2) ELSE b

\* Line 81: the tokens the loop skips.
Skipped(base) ==
    base \in STOPWORDS \/ base \in COMMON_VERBS \/ Len(base) < 3

RECURSIVE Cleaned(_)
\* Lines 76-83: the list `cleaned`, built from `tokens` in order.
Cleaned(tokens) ==
    IF tokens = <<>> THEN <<>>
    ELSE LET base == Base(Head(tokens))
         IN  (IF Skipped(base) THEN <<>> ELSE <<base>>) \o Cleaned(Tail(tokens))

\* Line 88: the lowercased raw tokens written as one capital then lowercase.
Caps(tokens) ==
    { Lower(tokens[i]) : i \in { k \in 1..Len(tokens) :
          /\ IsUpperChar(tokens[k][1])
          /\ IsLowerStr(Tail(tokens[k])) } }

\* Counter(cleaned)[word]
Count(cleaned, word) == Cardinality({ i \in 1..Len(cleaned) : cleaned[i] = word })

RECURSIVE CounterKeys(_, _)
\* Counter(cleaned).items() iterates the words in order of first appearance.
CounterKeys(cleaned, seen) ==
    IF cleaned = <<>> THEN <<>>
    ELSE IF Head(cleaned) \in seen THEN CounterKeys(Tail(cleaned), seen)
    ELSE <<Head(cleaned)>> \o CounterKeys(Tail(cleaned), seen \cup {Head(cleaned)})

\* Lines 92-94, in hundredths: freq + 0.25 if capitalised + 0.10 if long.
\* (The four bonus sums 0, 0.10, 0.25, 0.35 are distinct floats below 1, so
\* comparing hundredths orders the scores as the floats are ordered.)
ScoreOf(word, freq, caps) ==
    100 * freq
    + (IF word \in caps THEN 25 ELSE 0)
    + (IF Len(word) >= 7 THEN 10 ELSE 0)

\* Lines 90-95: the list of (word, score, freq).
Scored(cleaned, caps) ==
    LET keys == CounterKeys(cleaned, {})
    IN  [i \in 1..Len(keys) |->
            LET freq == Count(cleaned, keys[i])
            IN  [word |-> keys[i], score |-> ScoreOf(keys[i], freq, caps), freq |-> freq]]

\* A sort on the score alone, the tie-breaks forgotten.
SortKeyLessScoreOnly(x, y) == x.score > y.score

\* Line 97: key(x) < key(y) for key = (-score, -freq, word).
SortKeyLess(x, y) ==
    \/ x.score > y.score
    \/ x.score = y.score /\ x.freq > y.freq
    \/ x.score = y.score /\ x.freq = y.freq /\ StrLess(x.word, y.word)

RECURSIVE InsertSorted(_, _)
\* Put x after every element whose key is not larger (list.sort is stable).
InsertSorted(sorted, x) ==
    IF sorted = <<>> THEN <<x>>
    ELSE IF SortKeyLess(x, Head(sorted)) THEN <<x>> \o sorted
    ELSE <<Head(sorted)>> \o InsertSorted(Tail(sorted), x)

RECURSIVE SortScored(_)
\* Line 97: scored.sort(key=...)
SortScored(scored) ==
    IF scored = <<>> THEN <<>>
    ELSE InsertSorted(SortScored(SubSeq(scored, 1, Len(scored) - 1)), scored[Len(scored)])

RECURSIVE TopLoop(_, _)
\* Lines 98-103: append unseen words until three are collected.
TopLoop(scored, top) ==
    IF scored = <<>> THEN top
    ELSE LET w == Head(scored).word
             t == IF w \in Range(top) THEN top ELSE Append(top, w)
         IN  IF Len(t) = 3 THEN t ELSE TopLoop(Tail(scored), t)

\* Lines 49-104.
extract_top3_nouns_like(s) ==
    IF s = <<>> \/ Strip(s) = <<>> THEN <<>>
    ELSE LET tokens == WORD_RE_findall(s)
             cleaned == Cleaned(tokens)
         IN  IF tokens = <<>> \/ cleaned = <<>> THEN <<>>
             ELSE TopLoop(SortScored(Scored(cleaned, Caps(tokens))), <<>>)

---------------------------------------------------------------------------
(* Values shared by the storage and the request handlers.                  *)

\* Python's None where the other values are strings (an id, a title).
NONE == "None"

\* Optional[str] and Optional[List[str]]: None is <<>>, a value v is <<v>>.
None == <<>>

Some(v) == <<v>>

\* (x or ""), (x or []) on an optional value
OrEmpty(opt) == IF opt = None THEN <<>> ELSE opt[1]

s_ai == <<"a","i">>
s_AI == <<"A","I">>
s_air == <<"a","i","r">>
s_model == <<"m","o","d","e","l">>
s_tech == <<"t","e","c","h">>
s_zebra == <<"z","e","b","r","a">>
s_general == <<"g","e","n","e","r","a","l">>
s_unknown == <<"u","n","k","n","o","w","n">>
s_llm_failure == <<"l","l","m","-","f","a","i","l","u","r","e">>
s_technology == <<"t","e","c","h","n","o","l","o","g","y">>
s_engineering == <<"e","n","g","i","n","e","e","r","i","n","g">>

\* The InMemoryDB instances of the process: get_db() builds a new one on every
\* call, and routers/analyze.py and routers/search.py each call it once.
Instances == { "analyze", "search" }

\* The stores of the model: the InMemoryDB instances and the remote table.
Stores == Instances \cup { "supabase" }

\* The values str(uuid.uuid4()) and the remote store's id default draw from.
Uuids == { "u1", "u2", "u3" }

\* The ids of a list of rows, in order.
IdsOf(rs) == [i \in 1..Len(rs) |-> rs[i].id]

IdSet(rs) == { rs[i].id : i \in 1..Len(rs) }

---------------------------------------------------------------------------
(* app/services/db.py: InMemoryDB                                          *)

\* list.insert(0, item) in place of list.append(item): newest first.
ListInsertFront(list, item) == <<item>> \o list

RECURSIVE ListUpsert(_, _)
\* In place of list.append(item): the row of the same id is replaced where the
\* list holds one.
ListUpsert(list, item) ==
    IF list = <<>> THEN <<item>>
    ELSE IF Head(list).id = item.id THEN <<item>> \o Tail(list)
    ELSE <<Head(list)>> \o ListUpsert(Tail(list), item)

\* Line 43: list.append (one call into the interpreter, atomic under the GIL)
ListAppend(list, item) == Append(list, item)

\* Lines 40-42: the copy of the row, with a uuid when it carries no id.
\* `u` is the value uuid.uuid4() yields.
WithId(row, u) == IF row.id = NONE \/ row.id = "" THEN [row EXCEPT !.id = u] ELSE row

\* sub occurs in s as a contiguous run.
IsSubstring(sub, s) ==
    \E i \in 1..(Len(s) - Len(sub) + 1) : SubSeq(s, i, i + Len(sub) - 1) = sub

\* A substring test in place of list membership (`q in topic` for `q in topics`).
MatchesSubstring(r, q) ==
    \/ \E i \in 1..Len(r.topics) : IsSubstring(q, Lower(r.topics[i]))
    \/ \E i \in 1..Len(r.keywords) : IsSubstring(q, Lower(r.keywords[i]))

\* Lines 52-54: the test of one row against the normalised query q.
Matches(r, q) ==
    \/ \E i \in 1..Len(r.topics) : Lower(r.topics[i]) = q
    \/ \E i \in 1..Len(r.keywords) : Lower(r.keywords[i]) = q

\* Line 47: q = (topic or "").lower().strip()
MemQuery(topic) == Strip(Lower(OrEmpty(topic)))

\* A search whose blank branch answers newest first, as SupabaseDB's does.
InMemSearchNewestFirst(rs, topic) ==
    LET q == Strip(Lower(OrEmpty(topic)))
        Test(r) == \/ \E i \in 1..Len(r.topics) : Lower(r.topics[i]) = q
                   \/ \E i \in 1..Len(r.keywords) : Lower(r.keywords[i]) = q
    IN  IF q = <<>> THEN [i \in 1..Len(rs) |-> rs[Len(rs) + 1 - i]] ELSE SelectSeq(rs, Test)

\* Lines 46-56: InMemoryDB.search on the list rs, run without interruption.
InMemSearch(rs, topic) ==
    LET q == MemQuery(topic)
        Test(r) == Matches(r, q)
    IN  IF q = <<>> THEN rs ELSE SelectSeq(rs, Test)

---------------------------------------------------------------------------
(* app/services/db.py: SupabaseDB                                          *)

\* Line 89: .limit(100)
Limit(rs, n) == IF Len(rs) <= n THEN rs ELSE SubSeq(rs, 1, n)

\* Line 88: .order("created_at", desc=True); the table is kept in creation order
Reverse(rs) == [i \in 1..Len(rs) |-> rs[Len(rs) + 1 - i]]

\* Lines 94-96: .contains(column, [q]) is the array containment operator of the
\* remote store: some element of the text array equals q, case and all.
Contains(entries, q) == \E i \in 1..Len(entries) : entries[i] = q

RECURSIVE MergeById(_, _, _)
\* Lines 98-109: append the rows whose id has not been seen.
MergeById(data, ids, results) ==
    IF data = <<>> THEN results
    ELSE IF Head(data).id \in ids THEN MergeById(Tail(data), ids, results)
    ELSE MergeById(Tail(data), ids \cup {Head(data).id}, Append(results, Head(data)))

\* Line 83: q = (topic or "").strip()
SupaQuery(topic) == Strip(OrEmpty(topic))

\* Lines 82-110: SupabaseDB.search against the remote rows tb.
SupabaseSearch(tb, topic) ==
    LET q == SupaQuery(topic)
        InTopics(r) == Contains(r.topics, q)
        InKeywords(r) == Contains(r.keywords, q)
        topics_res == SelectSeq(tb, InTopics)
        keywords_res == SelectSeq(tb, InKeywords)
    IN  IF q = <<>> THEN Limit(Reverse(tb), 100)
        ELSE MergeById(keywords_res, IdSet(MergeById(topics_res, {}, <<>>)),
                       MergeById(topics_res, {}, <<>>))

\* What the remote store may answer to an insert (line 76): it stores the row and
\* returns it; it stores the row and returns no data; it stores nothing and
\* returns no data.
RemoteOutcomes == { "row", "stored_no_row", "no_row" }

\* insert_analysis handing back its argument when the store returns no data,
\* in place of the raise of line 80.
SupabaseInsertReturnsInput(tb, row, u, outcome) ==
    [ table  |-> IF outcome = "no_row" THEN tb ELSE Append(tb, WithId(row, u)),
      raised |-> NONE,
      ret    |-> IF outcome = "row" THEN <<WithId(row, u)>> ELSE <<row>> ]

\* Lines 75-80: SupabaseDB.insert_analysis. `u` is the id the store assigns.
\* Yields the remote rows afterwards, the row returned and whether line 80 raised.
SupabaseInsert(tb, row, u, outcome) ==
    LET stored == WithId(row, u)
        data == IF outcome = "row" THEN <<stored>> ELSE <<>>
    IN  [ table  |-> IF outcome = "no_row" THEN tb ELSE Append(tb, stored),
          raised |-> IF Len(data) > 0 THEN NONE ELSE "RuntimeError",
          ret    |-> data ]

---------------------------------------------------------------------------
(* Bounds and the inputs the specifications draw from.                     *)

\* The longest text of the keyword specification, in words.
MaxWords == 5

\* The most rows the stores hold, all stores together.
MaxRows == 2

\* The words the texts of the keyword specification are made of.
KwWords ==
    { <<"M","o","d","e","l">>, <<"m","o","d","e","l","'","s">>,
      <<"t","h","e">>, s_air, <<"d","e","v","e","l","o","p","e","r","s">>,
      s_zebra }

KwTexts ==
    { Join(ws) : ws \in UNION { [1..n -> KwWords] : n \in 0..MaxWords } }
    \cup { <<" ">>, <<" ", "\n">> }

\* The (topics, keywords) of the rows handed to the storage API.
TopicsKeywords ==
    { << <<s_AI, s_tech>>, <<s_model>> >>,
      << <<s_tech>>, <<s_air>> >>,
      << <<s_general>>, <<s_ai, s_model>> >> }

\* The rows handed to insert_analysis: without an id, or with one the caller
\* chose ("c1", or an id the storage issued before).
RowInputs ==
    { [ id |-> i, title |-> NONE, summary |-> "summary", topics |-> tk[1],
        sentiment |-> "neutral", keywords |-> tk[2], confidence |-> 6500,
        text |-> tk[2][1] ]
      : i \in { NONE, "c1" } \cup issued, tk \in TopicsKeywords }

\* The arguments of search: None, blank strings, and queries in several cases.
Topics ==
    { None, Some(<<" ">>), Some(s_ai), Some(s_AI), Some(<<" ", "A", "i", " ">>),
      Some(s_air) }

\* The rows a store holds.
Held(d) == IF d = "supabase" THEN table ELSE rows[d]

TotalRows == Len(rows["analyze"]) + Len(rows["search"]) + Len(table)

NoCall ==
    [ op |-> "none", db |-> NONE, row |-> <<>>, topic |-> None, ret |-> <<>>,
      raised |-> NONE ]

---------------------------------------------------------------------------
(* The keyword specification: extract_top3_nouns_like applied to a text.   *)

KwIdle == kwText = <<>> /\ kwTop = <<>> /\ kwPc = "idle"

ConfIdle == confText = <<>> /\ confOk = FALSE /\ confOut = 0 /\ confPc = "idle"

DbIdle ==
    /\ USE_INMEM_DB = TRUE
    /\ rows = [d \in Instances |-> <<>>]
    /\ table = <<>>
    /\ issued = {}
    /\ inserted = [d \in Stores |-> <<>>]
    /\ lastCall = NoCall

ThrIdle == thr = <<>>

HttpIdle == req = <<>> /\ response = <<>>

InitKeywords ==
    /\ kwText \in KwTexts
    /\ kwTop = <<>>
    /\ kwPc = "call"
    /\ ConfIdle /\ DbIdle /\ ThrIdle /\ HttpIdle

ExtractKeywords ==
    /\ kwPc = "call"
    /\ kwTop' = extract_top3_nouns_like(kwText)
    /\ kwPc' = "done"
    /\ UNCHANGED <<kwText, confVars, dbVars, thr, httpVars>>

NextKeywords == ExtractKeywords

SpecKeywords == InitKeywords /\ [][NextKeywords]_vars

---------------------------------------------------------------------------
(* The storage specification: callers of insert_analysis and search.       *)

Init ==
    /\ USE_INMEM_DB \in BOOLEAN
    /\ rows = [d \in Instances |-> <<>>]
    /\ table = <<>>
    /\ issued = {}
    /\ inserted = [d \in Stores |-> <<>>]
    /\ lastCall = NoCall
    /\ KwIdle /\ ConfIdle /\ ThrIdle /\ HttpIdle

\* InMemoryDB.insert_analysis (lines 39-44) on instance d.
MemInsert(d, row, u) ==
    /\ USE_INMEM_DB
    /\ TotalRows < MaxRows
    /\ u \in Uuids \ issued
    /\ LET item == WithId(row, u)
       IN  /\ rows' = [rows EXCEPT ![d] = ListAppend(@, item)]
           /\ issued' = IF item.id = u THEN issued \cup {u} ELSE issued
           /\ inserted' = [inserted EXCEPT ![d] = Append(@, item)]
           /\ lastCall' = [ op |-> "insert", db |-> d, row |-> <<row>>, topic |-> None,
                            ret |-> <<item>>, raised |-> NONE ]
    /\ UNCHANGED <<USE_INMEM_DB, table, kwVars, confVars, thr, httpVars>>

\* InMemoryDB.search (lines 46-56) on instance d.
MemSearch(d, topic) ==
    /\ USE_INMEM_DB
    /\ lastCall' = [ op |-> "search", db |-> d, row |-> <<>>, topic |-> topic,
                     ret |-> InMemSearch(rows[d], topic), raised |-> NONE ]
    /\ UNCHANGED <<USE_INMEM_DB, rows, table, issued, inserted, kwVars, confVars, thr, httpVars>>

\* SupabaseDB.insert_analysis (lines 75-80). The rows that reach it carry no id
\* (analyze.py lines 70-78 build them without one).
SupaInsert(row, u, outcome) ==
    /\ ~USE_INMEM_DB
    /\ TotalRows < MaxRows
    /\ row.id = NONE
    /\ u \in Uuids \ issued
    /\ LET res == SupabaseInsert(table, row, u, outcome)
       IN  /\ table' = res.table
           /\ issued' = IF outcome = "no_row" THEN issued ELSE issued \cup {u}
           /\ inserted' = [inserted EXCEPT !["supabase"] = @ \o res.ret]
           /\ lastCall' = [ op |-> "insert", db |-> "supabase", row |-> <<row>>,
                            topic |-> None, ret |-> res.ret, raised |-> res.raised ]
    /\ UNCHANGED <<USE_INMEM_DB, rows, kwVars, confVars, thr, httpVars>>

\* SupabaseDB.search (lines 82-110).
SupaSearch(topic) ==
    /\ ~USE_INMEM_DB
    /\ lastCall' = [ op |-> "search", db |-> "supabase", row |-> <<>>, topic |-> topic,
                     ret |-> SupabaseSearch(table, topic), raised |-> NONE ]
    /\ UNCHANGED <<USE_INMEM_DB, rows, table, issued, inserted, kwVars, confVars, thr, httpVars>>

Next ==
    \/ \E d \in Instances, row \in RowInputs, u \in Uuids : MemInsert(d, row, u)
    \/ \E d \in Instances, topic \in Topics : MemSearch(d, topic)
    \/ \E row \in RowInputs, u \in Uuids, outcome \in RemoteOutcomes :
           SupaInsert(row, u, outcome)
    \/ \E topic \in Topics : SupaSearch(topic)

Spec == Init /\ [][Next]_vars

---------------------------------------------------------------------------
(* The thread specification: several callers inside the methods of one     *)
(* InMemoryDB at once.  The host runs its synchronous handlers on a pool   *)
(* of threads and db.py takes no lock, so the interpreter may switch       *)
(* threads between any two steps of a method; a step below is one access   *)
(* to the shared list together with the thread-local work that follows it. *)

Threads == { "t1", "t2" }

\* The instance the threads share.
SharedDb == "analyze"

\* The rows the threads insert: rows/dicts built without an id.
ThreadRows == { r \in RowInputs : r.id = NONE }

\* The arguments the threads search with.
ThreadTopics == { Some(<<" ">>), Some(s_ai), Some(s_air) }

ThreadIdle ==
    [ pc |-> "idle", done |-> "none", item |-> <<>>, topic |-> None, idx |-> 0,
      results |-> <<>>, ret |-> <<>>, atCall |-> <<>>, snaps |-> {} ]

InitThreads ==
    /\ USE_INMEM_DB = TRUE
    /\ rows = [d \in Instances |-> <<>>]
    /\ table = <<>>
    /\ issued = {}
    /\ inserted = [d \in Stores |-> <<>>]
    /\ lastCall = NoCall
    /\ thr = [t \in Threads |-> ThreadIdle]
    /\ KwIdle /\ ConfIdle /\ HttpIdle

\* A thread is inside insert_analysis or search: called, not yet returned.
Active(t) == thr[t].pc # "idle"

\* Lines 39-42: the call of insert_analysis up to the append.
ThrInsertCall(t, row, u) ==
    /\ thr[t].pc = "idle"
    /\ Len(rows[SharedDb]) + Cardinality({ x \in Threads : thr[x].pc = "append" }) < MaxRows
    /\ u \in Uuids \ issued
    /\ issued' = issued \cup {u}
    /\ thr' = [thr EXCEPT ![t] =
                  [ ThreadIdle EXCEPT !.pc = "append", !.item = <<WithId(row, u)>>,
                                      !.atCall = rows[SharedDb],
                                      !.snaps = {rows[SharedDb]} ]]
    /\ UNCHANGED <<USE_INMEM_DB, rows, table, inserted, lastCall, kwVars, confVars, httpVars>>

\* Lines 43-44: the append and the return.  Every thread inside a method sees
\* the list as it is now.
ThrInsertAppend(t) ==
    /\ thr[t].pc = "append"
    /\ LET now == ListAppend(rows[SharedDb], thr[t].item[1])
       IN  /\ rows' = [rows EXCEPT ![SharedDb] = now]
           /\ inserted' = [inserted EXCEPT ![SharedDb] = Append(@, thr[t].item[1])]
           /\ thr' = [x \in Threads |->
                        IF x = t
                        THEN [thr[t] EXCEPT !.pc = "idle", !.done = "insert",
                                            !.ret = thr[t].item,
                                            !.snaps = @ \cup {now}]
                        ELSE IF Active(x) THEN [thr[x] EXCEPT !.snaps = @ \cup {now}]
                        ELSE thr[x]]
    /\ UNCHANGED <<USE_INMEM_DB, table, issued, lastCall, kwVars, confVars, httpVars>>

\* Lines 46-50: the call of search; a blank query goes to the copy of line 49,
\* any other to the loop of line 51.
ThrSearchCall(t, topic) ==
    /\ thr[t].pc = "idle"
    /\ thr' = [thr EXCEPT ![t] =
                  [ ThreadIdle EXCEPT !.pc = IF MemQuery(topic) = <<>> THEN "copy" ELSE "loop",
                                      !.topic = topic,
                                      !.atCall = rows[SharedDb],
                                      !.snaps = {rows[SharedDb]} ]]
    /\ UNCHANGED <<dbVars, kwVars, confVars, httpVars>>

\* Line 49: list(self._rows), one call into the interpreter, and the return.
ThrSearchCopy(t) ==
    /\ thr[t].pc = "copy"
    /\ thr' = [thr EXCEPT ![t].pc = "idle", ![t].done = "search",
                          ![t].ret = rows[SharedDb]]
    /\ UNCHANGED <<dbVars, kwVars, confVars, httpVars>>

\* Lines 51-56: one turn of the loop.  The list iterator compares its index with
\* the length the list has now; past the end the loop is over and search returns.
ThrSearchIter(t) ==
    /\ thr[t].pc = "loop"
    /\ IF thr[t].idx < Len(rows[SharedDb])
       THEN LET r == rows[SharedDb][thr[t].idx + 1]
            IN  thr' = [thr EXCEPT ![t].idx = @ + 1,
                                   ![t].results =
                                       IF Matches(r, MemQuery(thr[t].topic))
                                       THEN Append(@, r) ELSE @]
       ELSE thr' = [thr EXCEPT ![t].pc = "idle", ![t].done = "search",
                               ![t].ret = thr[t].results]
    /\ UNCHANGED <<dbVars, kwVars, confVars, httpVars>>

NextThreads ==
    \/ \E t \in Threads, row \in ThreadRows, u \in Uuids : ThrInsertCall(t, row, u)
    \/ \E t \in Threads : ThrInsertAppend(t)
    \/ \E t \in Threads, topic \in ThreadTopics : ThrSearchCall(t, topic)
    \/ \E t \in Threads : ThrSearchCopy(t)
    \/ \E t \in Threads : ThrSearchIter(t)

SpecThreads == InitThreads /\ [][NextThreads]_vars

---------------------------------------------------------------------------
(* app/routers/analyze.py and app/routers/search.py                        *)

\* math.log10 at line 29, tabulated: LOG10_FLOOR[m - 9] is 1000 * log10(m)
\* rounded down to an integer, for 10 <= m <= 999, that is log10(m) / 10.0 in
\* ten-thousandths.  No entry sits on a rounding tie: log10(m) is irrational
\* unless m is a power of ten.
LOG10_FLOOR ==
    << 1000, 1041, 1079, 1113, 1146, 1176, 1204, 1230, 1255, 1278, 1301, 1322, 1342,
       1361, 1380, 1397, 1414, 1431, 1447, 1462, 1477, 1491, 1505, 1518, 1531, 1544,
       1556, 1568, 1579, 1591, 1602, 1612, 1623, 1633, 1643, 1653, 1662, 1672, 1681,
       1690, 1698, 1707, 1716, 1724, 1732, 1740, 1748, 1755, 1763, 1770, 1778, 1785,
       1792, 1799, 1806, 1812, 1819, 1826, 1832, 1838, 1845, 1851, 1857, 1863, 1869,
       1875, 1880, 1886, 1892, 1897, 1903, 1908, 1913, 1919, 1924, 1929, 1934, 1939,
       1944, 1949, 1954, 1959, 1963, 1968, 1973, 1977, 1982, 1986, 1991, 1995, 2000,
       2004, 2008, 2012, 2017, 2021, 2025, 2029, 2033, 2037, 2041, 2045, 2049, 2053,
       2056, 2060, 2064, 2068, 2071, 2075, 2079, 2082, 2086, 2089, 2093, 2096, 2100,
       2103, 2107, 2110, 2113, 2117, 2120, 2123, 2127, 2130, 2133, 2136, 2139, 2143,
       2146, 2149, 2152, 2155, 2158, 2161, 2164, 2167, 2170, 2173, 2176, 2178, 2181,
       2184, 2187, 2190, 2193, 2195, 2198, 2201, 2204, 2206, 2209, 2212, 2214, 2217,
       2220, 2222, 2225, 2227, 2230, 2232, 2235, 2238, 2240, 2243, 2245, 2247, 2250,
       2252, 2255, 2257, 2260, 2262, 2264, 2267, 2269, 2271, 2274, 2276, 2278, 2281,
       2283, 2285, 2287, 2290, 2292, 2294, 2296, 2298, 2301, 2303, 2305, 2307, 2309,
       2311, 2313, 2315, 2318, 2320, 2322, 2324, 2326, 2328, 2330, 2332, 2334, 2336,
       2338, 2340, 2342, 2344, 2346, 2348, 2350, 2352, 2354, 2356, 2357, 2359, 2361,
       2363, 2365, 2367, 2369, 2371, 2372, 2374, 2376, 2378, 2380, 2382, 2383, 2385,
       2387, 2389, 2390, 2392, 2394, 2396, 2397, 2399, 2401, 2403, 2404, 2406, 2408,
       2409, 2411, 2413, 2414, 2416, 2418, 2419, 2421, 2423, 2424, 2426, 2428, 2429,
       2431, 2432, 2434, 2436, 2437, 2439, 2440, 2442, 2444, 2445, 2447, 2448, 2450,
       2451, 2453, 2454, 2456, 2457, 2459, 2460, 2462, 2463, 2465, 2466, 2468, 2469,
       2471, 2472, 2474, 2475, 2477, 2478, 2480, 2481, 2482, 2484, 2485, 2487, 2488,
       2489, 2491, 2492, 2494, 2495, 2496, 2498, 2499, 2501, 2502, 2503, 2505, 2506,
       2507, 2509, 2510, 2511, 2513, 2514, 2515, 2517, 2518, 2519, 2521, 2522, 2523,
       2525, 2526, 2527, 2528, 2530, 2531, 2532, 2534, 2535, 2536, 2537, 2539, 2540,
       2541, 2542, 2544, 2545, 2546, 2547, 2549, 2550, 2551, 2552, 2553, 2555, 2556,
       2557, 2558, 2559, 2561, 2562, 2563, 2564, 2565, 2567, 2568, 2569, 2570, 2571,
       2572, 2574, 2575, 2576, 2577, 2578, 2579, 2580, 2582, 2583, 2584, 2585, 2586,
       2587, 2588, 2589, 2591, 2592, 2593, 2594, 2595, 2596, 2597, 2598, 2599, 2600,
       2602, 2603, 2604, 2605, 2606, 2607, 2608, 2609, 2610, 2611, 2612, 2613, 2614,
       2615, 2617, 2618, 2619, 2620, 2621, 2622, 2623, 2624, 2625, 2626, 2627, 2628,
       2629, 2630, 2631, 2632, 2633, 2634, 2635, 2636, 2637, 2638, 2639, 2640, 2641,
       2642, 2643, 2644, 2645, 2646, 2647, 2648, 2649, 2650, 2651, 2652, 2653, 2654,
       2655, 2656, 2657, 2658, 2658, 2659, 2660, 2661, 2662, 2663, 2664, 2665, 2666,
       2667, 2668, 2669, 2670, 2671, 2672, 2673, 2673, 2674, 2675, 2676, 2677, 2678,
       2679, 2680, 2681, 2682, 2683, 2683, 2684, 2685, 2686, 2687, 2688, 2689, 2690,
       2691, 2691, 2692, 2693, 2694, 2695, 2696, 2697, 2698, 2698, 2699, 2700, 2701,
       2702, 2703, 2704, 2705, 2705, 2706, 2707, 2708, 2709, 2710, 2710, 2711, 2712,
       2713, 2714, 2715, 2716, 2716, 2717, 2718, 2719, 2720, 2720, 2721, 2722, 2723,
       2724, 2725, 2725, 2726, 2727, 2728, 2729, 2729, 2730, 2731, 2732, 2733, 2733,
       2734, 2735, 2736, 2737, 2737, 2738, 2739, 2740, 2741, 2741, 2742, 2743, 2744,
       2745, 2745, 2746, 2747, 2748, 2748, 2749, 2750, 2751, 2752, 2752, 2753, 2754,
       2755, 2755, 2756, 2757, 2758, 2758, 2759, 2760, 2761, 2761, 2762, 2763, 2764,
       2764, 2765, 2766, 2767, 2767, 2768, 2769, 2770, 2770, 2771, 2772, 2773, 2773,
       2774, 2775, 2775, 2776, 2777, 2778, 2778, 2779, 2780, 2781, 2781, 2782, 2783,
       2783, 2784, 2785, 2786, 2786, 2787, 2788, 2788, 2789, 2790, 2790, 2791, 2792,
       2793, 2793, 2794, 2795, 2795, 2796, 2797, 2797, 2798, 2799, 2800, 2800, 2801,
       2802, 2802, 2803, 2804, 2804, 2805, 2806, 2806, 2807, 2808, 2808, 2809, 2810,
       2810, 2811, 2812, 2812, 2813, 2814, 2814, 2815, 2816, 2816, 2817, 2818, 2818,
       2819, 2820, 2820, 2821, 2822, 2822, 2823, 2824, 2824, 2825, 2826, 2826, 2827,
       2828, 2828, 2829, 2829, 2830, 2831, 2831, 2832, 2833, 2833, 2834, 2835, 2835,
       2836, 2836, 2837, 2838, 2838, 2839, 2840, 2840, 2841, 2841, 2842, 2843, 2843,
       2844, 2845, 2845, 2846, 2846, 2847, 2848, 2848, 2849, 2850, 2850, 2851, 2851,
       2852, 2853, 2853, 2854, 2854, 2855, 2856, 2856, 2857, 2857, 2858, 2859, 2859,
       2860, 2860, 2861, 2862, 2862, 2863, 2863, 2864, 2865, 2865, 2866, 2866, 2867,
       2868, 2868, 2869, 2869, 2870, 2870, 2871, 2872, 2872, 2873, 2873, 2874, 2875,
       2875, 2876, 2876, 2877, 2877, 2878, 2879, 2879, 2880, 2880, 2881, 2881, 2882,
       2883, 2883, 2884, 2884, 2885, 2885, 2886, 2887, 2887, 2888, 2888, 2889, 2889,
       2890, 2890, 2891, 2892, 2892, 2893, 2893, 2894, 2894, 2895, 2895, 2896, 2897,
       2897, 2898, 2898, 2899, 2899, 2900, 2900, 2901, 2902, 2902, 2903, 2903, 2904,
       2904, 2905, 2905, 2906, 2906, 2907, 2907, 2908, 2909, 2909, 2910, 2910, 2911,
       2911, 2912, 2912, 2913, 2913, 2914, 2914, 2915, 2915, 2916, 2916, 2917, 2918,
       2918, 2919, 2919, 2920, 2920, 2921, 2921, 2922, 2922, 2923, 2923, 2924, 2924,
       2925, 2925, 2926, 2926, 2927, 2927, 2928, 2928, 2929, 2929, 2930, 2930, 2931,
       2931, 2932, 2932, 2933, 2933, 2934, 2935, 2935, 2936, 2936, 2937, 2937, 2938,
       2938, 2939, 2939, 2940, 2940, 2941, 2941, 2942, 2942, 2942, 2943, 2943, 2944,
       2944, 2945, 2945, 2946, 2946, 2947, 2947, 2948, 2948, 2949, 2949, 2950, 2950,
       2951, 2951, 2952, 2952, 2953, 2953, 2954, 2954, 2955, 2955, 2956, 2956, 2957,
       2957, 2958, 2958, 2959, 2959, 2959, 2960, 2960, 2961, 2961, 2962, 2962, 2963,
       2963, 2964, 2964, 2965, 2965, 2966, 2966, 2967, 2967, 2968, 2968, 2968, 2969,
       2969, 2970, 2970, 2971, 2971, 2972, 2972, 2973, 2973, 2974, 2974, 2974, 2975,
       2975, 2976, 2976, 2977, 2977, 2978, 2978, 2979, 2979, 2980, 2980, 2980, 2981,
       2981, 2982, 2982, 2983, 2983, 2984, 2984, 2984, 2985, 2985, 2986, 2986, 2987,
       2987, 2988, 2988, 2989, 2989, 2989, 2990, 2990, 2991, 2991, 2992, 2992, 2992,
       2993, 2993, 2994, 2994, 2995, 2995, 2996, 2996, 2996, 2997, 2997, 2998, 2998,
       2999, 2999 >>

\* math.log10(m) / 10.0 in ten-thousandths (rounded down), for 10 <= m <= 999.
Log10Floor(m) == LOG10_FLOOR[m - 9]

Max(a, b) == IF a >= b THEN a ELSE b

\* A value in ten-thousandths as no rounding leaves it.
RoundNone(x) == x

\* round(conf, 3) at line 32, on a value in ten-thousandths: the nearest
\* multiple of a thousandth.
Round3(x) == ((x + 5) \div 10) * 10

\* Lines 20-32: _confidence_heuristic.  The result is in ten-thousandths, so a
\* value rounded to 3 decimals is a multiple of 10.  Past m = 999 the logarithm
\* exceeds 3 and min(0.30, ...) caps the bonus.
confidence_heuristic(t, llm_ok) ==
    LET n == Max(1, SplitCount(t, FALSE))
        length_bonus == IF n + 9 >= 1000 THEN 3000 ELSE Min(3000, Log10Floor(n + 9))
        llm_bonus == IF llm_ok THEN 1000 ELSE 0
        conf == 5500 + length_bonus + llm_bonus
    IN  Max(5000, Min(9800, Round3(conf)))

\* What the two calls on the language model client do (lines 55-56): both return,
\* summarize raises, or summarize returns and extract_metadata raises.
LlmOutcomes == { "ok", "summarize_raises", "metadata_raises" }

\* What extract_metadata returns when nothing is asked of it.
NoMeta == [ title |-> NONE, topics |-> <<>>, sentiment |-> "neutral" ]

\* llm.py lines 78-83 and 93-103: the metadata a successful call returns: a
\* title or None, exactly three topics, one of three sentiments.  The model
\* draws the payload of lines 79-83.
LlmMetas ==
    { [ title |-> NONE, topics |-> <<s_technology, s_ai, s_engineering>>,
        sentiment |-> "neutral" ] }

\* Lines 49-66 with the fallback topics left out of the except branch.
LlmFieldsNoFallbackTopics(outcome, meta) ==
    IF outcome = "ok"
    THEN [ llm_ok |-> TRUE, summary |-> "summary by the model", title |-> meta.title,
           topics |-> meta.topics, sentiment |-> meta.sentiment ]
    ELSE [ llm_ok |-> FALSE, summary |-> "LLM unavailable. Summary could not be generated.",
           title |-> NONE, topics |-> <<>>, sentiment |-> "neutral" ]

\* Lines 49-66: the fields taken from the language model, or the fallback values
\* of the except branch.
LlmFields(outcome, meta) ==
    IF outcome = "ok"
    THEN [ llm_ok |-> TRUE, summary |-> "summary by the model", title |-> meta.title,
           topics |-> meta.topics, sentiment |-> meta.sentiment ]
    ELSE [ llm_ok |-> FALSE, summary |-> "LLM unavailable. Summary could not be generated.",
           title |-> NONE, topics |-> <<s_general, s_unknown, s_llm_failure>>,
           sentiment |-> "neutral" ]

\* Lines 47-78: the row _analyze_single builds for the stripped text t.  It has
\* no "id" key, which insert_analysis reads as None.
BuildRow(t, outcome, meta) ==
    LET f == LlmFields(outcome, meta)
    IN  [ id |-> NONE, title |-> f.title, summary |-> f.summary, topics |-> f.topics,
          sentiment |-> f.sentiment, keywords |-> extract_top3_nouns_like(t),
          confidence |-> confidence_heuristic(t, f.llm_ok), text |-> t ]

\* Lines 91-104 with the two branches in the other order: text before items.
SelectItemsTextFirst(payload) ==
    IF payload.text # None
    THEN [ status |-> 200, detail |-> NONE, items |-> <<payload.text[1]>> ]
    ELSE IF payload.items # None
    THEN IF Len(payload.items[1]) = 0
         THEN [ status |-> 400, detail |-> "Batch 'items' must be a non-empty list of strings.",
                items |-> <<>> ]
         ELSE [ status |-> 200, detail |-> NONE, items |-> payload.items[1] ]
    ELSE [ status |-> 400, detail |-> "Provide 'text' or 'items' with data.", items |-> <<>> ]

\* Lines 91-104: the texts the request is about, or the rejection.
SelectItems(payload) ==
    IF payload.items # None
    THEN IF Len(payload.items[1]) = 0
         THEN [ status |-> 400, detail |-> "Batch 'items' must be a non-empty list of strings.",
                items |-> <<>> ]
         ELSE [ status |-> 200, detail |-> NONE, items |-> payload.items[1] ]
    ELSE IF payload.text # None
    THEN [ status |-> 200, detail |-> NONE, items |-> <<payload.text[1]>> ]
    ELSE [ status |-> 400, detail |-> "Provide 'text' or 'items' with data.", items |-> <<>> ]

\* The store the analyze router's db writes to, and the one the search router's
\* db reads: analyze.py line 17 and search.py line 14 each call get_db().
AnalyzeStore == IF USE_INMEM_DB THEN "analyze" ELSE "supabase"

SearchStore == IF USE_INMEM_DB THEN "search" ELSE "supabase"

\* db.insert_analysis(row) at line 79, on whichever backend get_db() returned.
\* Yields the stores afterwards, the row returned and the exception raised.
DbInsert(row, u, outcome) ==
    IF USE_INMEM_DB
    THEN [ rows |-> [rows EXCEPT !["analyze"] = ListAppend(@, WithId(row, u))],
           table |-> table, ret |-> <<WithId(row, u)>>, raised |-> NONE ]
    ELSE LET res == SupabaseInsert(table, row, u, outcome)
         IN  [ rows |-> rows, table |-> res.table, ret |-> res.ret, raised |-> res.raised ]

\* db.search(topic or "") at search.py line 25.
DbSearch(topic) ==
    IF USE_INMEM_DB THEN InMemSearch(rows["search"], Some(OrEmpty(topic)))
    ELSE SupabaseSearch(table, Some(OrEmpty(topic)))

---------------------------------------------------------------------------
(* The request specification: the two routes, one request at a time.       *)

\* The most texts a batch holds.
MaxItems == 2

t_blank == <<" ", " ">>
t_air_model == <<" ", "A","i","r", " ", "m","o","d","e","l">>
t_zebra == s_zebra

HttpTexts == { t_blank, t_air_model, t_zebra }

\* The bodies of POST /api/analyze: text and items, each given or not.
Payloads ==
    { [ text |-> tx, items |-> it ] :
        tx \in { None, Some(t_blank), Some(t_zebra) },
        it \in { None } \cup { Some(l) : l \in UNION { [1..n -> HttpTexts] : n \in 0..MaxItems } } }

\* The topic parameter of GET /api/search.
HttpTopics == { None, Some(s_air), Some(<<"A","I","R">>), Some(s_zebra) }

ReqIdle ==
    [ active |-> FALSE, payload |-> [text |-> None, items |-> None], items |-> <<>>,
      i |-> 0, results |-> <<>>, llm |-> <<>>, remote |-> <<>>, before |-> <<>> ]

NoResponse ==
    [ kind |-> "none", status |-> 0, detail |-> NONE, results |-> <<>>, topic |-> None,
      payload |-> [text |-> None, items |-> None], items |-> <<>>, llm |-> <<>>,
      remote |-> <<>>, before |-> <<>> ]

\* The response to the analyze request in req, with what the request went through.
AnalyzeResponse(r, status, detail, results) ==
    [ kind |-> "analyze", status |-> status, detail |-> detail, results |-> results,
      topic |-> None, payload |-> r.payload, items |-> r.items, llm |-> r.llm,
      remote |-> r.remote, before |-> r.before ]

InitHttp ==
    /\ USE_INMEM_DB \in BOOLEAN
    /\ rows = [d \in Instances |-> <<>>]
    /\ table = <<>>
    /\ issued = {}
    /\ inserted = [d \in Stores |-> <<>>]
    /\ lastCall = NoCall
    /\ req = ReqIdle
    /\ response = NoResponse
    /\ KwIdle /\ ConfIdle /\ ThrIdle

\* analyze, lines 84-106: the request arrives and its texts are selected, or it
\* is rejected with 400.
AnalyzeBegin(payload) ==
    /\ ~req.active
    /\ LET sel == SelectItems(payload)
           arrived == [ ReqIdle EXCEPT !.payload = payload, !.items = sel.items,
                                       !.before = Held(AnalyzeStore) ]
       IN  /\ TotalRows + Len(sel.items) <= MaxRows
           /\ IF sel.status = 200
              THEN /\ req' = [arrived EXCEPT !.active = TRUE, !.i = 1]
                   /\ response' = NoResponse
              ELSE /\ req' = ReqIdle
                   /\ response' = AnalyzeResponse(arrived, sel.status, sel.detail, <<>>)
    /\ UNCHANGED <<dbVars, kwVars, confVars, thr>>

\* analyze, lines 107-109, one turn of the loop: _analyze_single (lines 35-80) on
\* the next text.  An exception ends the request (400 for the HTTPException of
\* line 45, 500 for the RuntimeError of db.py line 80); after the last text the
\* results are sent.
AnalyzeItem(outcome, meta, u, remote) ==
    /\ req.active
    /\ u \in Uuids \ issued
    /\ meta \in (IF outcome = "ok" THEN LlmMetas ELSE {NoMeta})
    /\ remote \in (IF USE_INMEM_DB THEN {"in_memory"} ELSE RemoteOutcomes)
    /\ LET t == Strip(req.items[req.i])
           row == BuildRow(t, outcome, meta)
           ins == DbInsert(row, u, remote)
           seen == [ req EXCEPT !.llm = Append(@, LlmFields(outcome, meta).llm_ok),
                                !.remote = Append(@, remote) ]
       IN  IF t = <<>>
           THEN /\ response' = AnalyzeResponse(req, 400, "Empty input text.", <<>>)
                /\ req' = ReqIdle
                /\ UNCHANGED dbVars
           ELSE /\ rows' = ins.rows
                /\ table' = ins.table
                /\ issued' = IF Held(AnalyzeStore) = (IF USE_INMEM_DB THEN ins.rows["analyze"] ELSE ins.table)
                             THEN issued ELSE issued \cup {u}
                /\ inserted' = [inserted EXCEPT ![AnalyzeStore] = @ \o ins.ret]
                /\ UNCHANGED <<USE_INMEM_DB, lastCall>>
                /\ IF ins.raised # NONE
                   THEN /\ response' = AnalyzeResponse(seen, 500, ins.raised, <<>>)
                        /\ req' = ReqIdle
                   ELSE IF req.i = Len(req.items)
                   THEN /\ response' = AnalyzeResponse(seen, 200, NONE, req.results \o ins.ret)
                        /\ req' = ReqIdle
                   ELSE /\ req' = [seen EXCEPT !.i = @ + 1, !.results = @ \o ins.ret]
                        /\ UNCHANGED response
    /\ UNCHANGED <<kwVars, confVars, thr>>

\* search, search.py lines 17-27.
SearchRoute(topic) ==
    /\ ~req.active
    /\ response' = [ NoResponse EXCEPT !.kind = "search", !.status = 200,
                                       !.results = DbSearch(topic), !.topic = topic ]
    /\ UNCHANGED <<dbVars, req, kwVars, confVars, thr>>

NextHttp ==
    \/ \E payload \in Payloads : AnalyzeBegin(payload)
    \/ \E outcome \in LlmOutcomes, meta \in LlmMetas \cup {NoMeta}, u \in Uuids,
          remote \in RemoteOutcomes \cup {"in_memory"} :
           AnalyzeItem(outcome, meta, u, remote)
    \/ \E topic \in HttpTopics : SearchRoute(topic)

SpecHttp == InitHttp /\ [][NextHttp]_vars

---------------------------------------------------------------------------
(* The confidence specification: _confidence_heuristic called on a text,   *)
(* and _analyze_single storing the record of one text.                     *)

\* The longest of the short texts of the confidence specification, in words.
MaxConfWords == 40

\* Word counts around the point where log10(n + 9) / 10.0 reaches 0.30.
LongCounts == { 990, 991, 992 }

\* A text of n one-letter words separated by single spaces.
WordsText(n) == [i \in 1..(2 * n - 1) |-> IF i % 2 = 1 THEN "w" ELSE " "]

\* The text arguments: no word, blank, and n words for short and long n.
ConfTexts ==
    { WordsText(n) : n \in (0..MaxConfWords) \cup LongCounts }
    \cup { <<" ", "\n">>, <<" ", "w", "\n", "w", " ">> }

InitConfidence ==
    /\ confText \in ConfTexts
    /\ confOk \in BOOLEAN
    /\ confOut = 0
    /\ confPc = "call"
    /\ KwIdle /\ DbIdle /\ ThrIdle /\ HttpIdle

\* _confidence_heuristic(text, llm_ok), lines 20-32, called on its own.
ConfidenceCall ==
    /\ confPc = "call"
    /\ confOut' = confidence_heuristic(confText, confOk)
    /\ confPc' = "done"
    /\ UNCHANGED <<confText, confOk, kwVars, dbVars, thr, httpVars>>

\* _analyze_single(text), lines 35-80, where the language model answers when
\* confOk and raises otherwise: a blank text is rejected at line 45, any other is
\* given its confidence at line 68 and stored at line 79.  The long texts are
\* left to ConfidenceCall.
AnalyzeSingle(meta, u) ==
    /\ confPc = "call"
    /\ Len(confText) <= 2 * MaxConfWords
    /\ LET t == Strip(confText)
           outcome == IF confOk THEN "ok" ELSE "summarize_raises"
           row == BuildRow(t, outcome, IF confOk THEN meta ELSE NoMeta)
           ins == DbInsert(row, u, "in_memory")
       IN  IF t = <<>>
           THEN /\ confPc' = "rejected"
                /\ UNCHANGED <<confOut, dbVars>>
           ELSE /\ confPc' = "stored"
                /\ confOut' = row.confidence
                /\ rows' = ins.rows
                /\ table' = ins.table
                /\ issued' = issued \cup {u}
                /\ inserted' = [inserted EXCEPT ![AnalyzeStore] = @ \o ins.ret]
                /\ UNCHANGED <<USE_INMEM_DB, lastCall>>
    /\ UNCHANGED <<confText, confOk, kwVars, thr, httpVars>>

NextConfidence ==
    \/ ConfidenceCall
    \/ \E meta \in LlmMetas : AnalyzeSingle(meta, "u1")

SpecConfidence == InitConfidence /\ [][NextConfidence]_vars

---------------------------------------------------------------------------
(* Properties of the keyword heuristic.                                    *)

\* Some raw token written Capital-then-lowercase has the lowercase form w.
SeenCapitalized(tokens, w) ==
    \E i \in 1..Len(tokens) :
        /\ Lower(tokens[i]) = w
        /\ IsUpperChar(tokens[i][1])
        /\ IsLowerStr(Tail(tokens[i]))

\* The ranking of the specification over the surviving tokens of text s: the
\* frequency and the score (in hundredths) of every survivor.
KwRanking(s) ==
    LET tokens == WORD_RE_findall(s)
        cleaned == Cleaned(tokens)
        survivors == Range(cleaned)
        freq == [w \in survivors |-> Count(cleaned, w)]
    IN  [ survivors |-> survivors,
          freq |-> freq,
          score |-> [w \in survivors |->
                        100 * freq[w]
                        + (IF SeenCapitalized(tokens, w) THEN 25 ELSE 0)
                        + (IF Len(w) >= 7 THEN 10 ELSE 0)] ]

\* a ranks before b: score descending, then frequency descending, then the string.
KwBefore(rk, a, b) ==
    \/ rk.score[a] > rk.score[b]
    \/ rk.score[a] = rk.score[b] /\ rk.freq[a] > rk.freq[b]
    \/ rk.score[a] = rk.score[b] /\ rk.freq[a] = rk.freq[b] /\ StrLess(a, b)

\* top is the head of the ranking rk, three entries at most.
IsTop3(rk, top) ==
    /\ Len(top) = Min(3, Cardinality(rk.survivors))
    /\ Len(top) <= 3
    /\ \A i \in 1..Len(top) : top[i] \in rk.survivors
    /\ \A i, j \in 1..Len(top) : i < j =>
          /\ top[i] # top[j]
          /\ KwBefore(rk, top[i], top[j])
    /\ \A i \in 1..Len(top) : \A w \in rk.survivors \ Range(top) :
          KwBefore(rk, top[i], w)
    /\ \A i, j \in 1..Len(top) : rk.freq[top[i]] > rk.freq[top[j]] => i < j

\* C10: extract_top3_nouns_like returns the first min(3, k) of the k distinct
\* surviving tokens in the order score descending, frequency descending, token
\* ascending: at most 3 entries, no duplicates, every entry ranks before every
\* later entry and before every survivor left out, and a token of strictly higher
\* frequency precedes a token of lower frequency.
C10_Top3Ranked == kwPc = "done" => IsTop3(KwRanking(kwText), kwTop)

\* rk has four survivors and top three entries: the first by its frequency, the
\* next two of equal score, as is a survivor left out.
CutAfterTie(rk, top) ==
    /\ Cardinality(rk.survivors) = 4
    /\ Len(top) = 3
    /\ rk.freq[top[1]] > rk.freq[top[2]]
    /\ rk.score[top[2]] = rk.score[top[3]]
    /\ \E w \in rk.survivors \ Range(top) : rk.score[w] = rk.score[top[3]]

\* Four tokens survive, three are returned: the first by its frequency, and two
\* of equal score in the order of their strings.
C10_Witness == kwPc = "done" /\ CutAfterTie(KwRanking(kwText), kwTop)

---------------------------------------------------------------------------
(* Properties of the confidence heuristic.                                 *)

\* c, in ten-thousandths, lies in [0.50, 0.98] and has 3 decimals at most.
ConfidenceOk(c) == 5000 <= c /\ c <= 9800 /\ c % 10 = 0

\* C11: for every text and either value of llm_ok, _confidence_heuristic returns
\* a value in [0.50, 0.98] rounded to 3 decimals, and every record analyze has
\* stored carries such a confidence.
C11_ConfidenceInRange ==
    /\ confPc \in {"done", "stored"} => ConfidenceOk(confOut)
    /\ \A i \in 1..Len(Held(AnalyzeStore)) : ConfidenceOk(Held(AnalyzeStore)[i].confidence)

\* _analyze_single stored the record of a two-word text after the language
\* model failed: 0.55 + log10(11) / 10 = 0.65413..., rounded to 0.654.
C11_Witness ==
    /\ confPc = "stored" /\ ~confOk
    /\ SplitCount(confText, FALSE) = 2
    /\ Len(rows["analyze"]) = 1
    /\ rows["analyze"][1].confidence = 6540
    /\ confOut = 6540

---------------------------------------------------------------------------
(* Properties of the storage backends.                                     *)

\* The topics of the model that are not blank.
NonBlankTopics == { t \in Topics : Strip(OrEmpty(t)) # <<>> }

\* C2: for the same stored records and any non-blank query, InMemoryDB.search and
\* SupabaseDB.search return the same set of ids.
C2_BackendsAgree ==
    \A d \in Stores : \A t \in NonBlankTopics :
        IdSet(InMemSearch(Held(d), t)) = IdSet(SupabaseSearch(Held(d), t))

\* C3: no two rows of a store have the same id, and a row inserted without an id
\* got an id no row stored before it had.
C3_UniqueIds ==
    /\ \A d \in Stores : \A i, j \in 1..Len(Held(d)) :
           i # j => Held(d)[i].id # Held(d)[j].id
    /\ (lastCall.op = "insert" /\ lastCall.ret # <<>> /\ lastCall.row[1].id = NONE) =>
           LET rs == Held(lastCall.db)
           IN  \A i \in 1..(Len(rs) - 1) : rs[i].id # lastCall.ret[1].id

\* The query of the last call as the specification normalises it.
ClaimQuery == Lower(Strip(OrEmpty(lastCall.topic)))

\* Row r has a topic or a keyword equal to q, ignoring case.
HasEntry(r, q) ==
    \E e \in Range(r.topics) \cup Range(r.keywords) : Lower(e) = Lower(q)

RECURSIVE Pick(_, _, _)
\* The elements of rs whose index is in idx, in the order of rs.
Pick(rs, idx, i) ==
    IF i > Len(rs) THEN <<>>
    ELSE (IF i \in idx THEN <<rs[i]>> ELSE <<>>) \o Pick(rs, idx, i + 1)

\* C4: InMemoryDB.search with a non-blank query returns exactly the stored rows
\* that have a topic or keyword equal to the trimmed query ignoring case, in
\* insertion order; an entry that merely contains the query does not count.
C4_SearchExact ==
    (lastCall.op = "search" /\ lastCall.db \in Instances /\ ClaimQuery # <<>>) =>
        LET rs == rows[lastCall.db]
        IN  lastCall.ret = Pick(rs, { i \in 1..Len(rs) : HasEntry(rs[i], ClaimQuery) }, 1)

\* A search for " Ai " returned a row and left out a stored row whose only
\* near match is the keyword "air".
C4_Witness ==
    /\ lastCall.op = "search" /\ lastCall.db \in Instances
    /\ lastCall.topic = Some(<<" ", "A", "i", " ">>)
    /\ Len(lastCall.ret) = 1
    /\ \E i \in 1..Len(rows[lastCall.db]) :
           /\ s_air \in Range(rows[lastCall.db][i].keywords)
           /\ rows[lastCall.db][i] \notin Range(lastCall.ret)

\* C5: InMemoryDB.search with an empty or whitespace-only query returns every
\* inserted row exactly once, in the order of the inserts.
C5_BlankReturnsAll ==
    (lastCall.op = "search" /\ lastCall.db \in Instances /\ ClaimQuery = <<>>) =>
        lastCall.ret = inserted[lastCall.db]

\* A whitespace-only search returned two rows that were inserted one after the
\* other.
C5_Witness ==
    /\ lastCall.op = "search" /\ lastCall.db \in Instances
    /\ lastCall.topic = Some(<<" ">>)
    /\ Len(lastCall.ret) = 2
    /\ lastCall.ret[1] # lastCall.ret[2]
    /\ lastCall.ret = inserted[lastCall.db]

\* One step of the storage leaves every row of every InMemoryDB where it was,
\* field by field; a search leaves the lists as they were; an insert on instance
\* d appends the row it returns to d's list and touches no other list.
AppendOnlyStep ==
    /\ \A d \in Instances :
          /\ Len(rows'[d]) >= Len(rows[d])
          /\ SubSeq(rows'[d], 1, Len(rows[d])) = rows[d]
    /\ lastCall'.op = "search" => rows' = rows
    /\ \A d \in Instances :
          lastCall'.op = "insert" /\ lastCall'.db = d =>
              /\ rows'[d] = Append(rows[d], lastCall'.ret[1])
              /\ \A e \in Instances \ {d} : rows'[e] = rows[e]

\* C12: the in-memory store is append-only and its records immutable: every
\* insert or search keeps each record stored earlier, with all its fields and in
\* the same order; insert adds exactly one record at the end; search changes
\* nothing in the store.
C12_AppendOnly == [][AppendOnlyStep]_vars

\* Two different records were inserted into one InMemoryDB and a search with a
\* query has run since: the list still holds both, as insert returned them.
C12_Witness ==
    /\ lastCall.op = "search" /\ lastCall.db \in Instances
    /\ lastCall.topic = Some(s_ai)
    /\ Len(rows[lastCall.db]) = 2
    /\ rows[lastCall.db][1] # rows[lastCall.db][2]
    /\ rows[lastCall.db] = inserted[lastCall.db]

---------------------------------------------------------------------------
(* Properties of concurrent callers of one InMemoryDB.                     *)

\* What search(topic) owes on the list rs, by the specification.
SearchOf(rs, topic) ==
    LET q == Lower(Strip(OrEmpty(topic)))
    IN  IF q = <<>> THEN rs
        ELSE Pick(rs, { i \in 1..Len(rs) : HasEntry(rs[i], q) }, 1)

\* No two threads are inside insert_analysis or search at the same time.
MutualExclusion == \A t, x \in Threads : t # x => ~(Active(t) /\ Active(x))

\* C1 (as amended): insert_analysis and search are not serialised and do
\* overlap, yet no row handed to insert_analysis is lost or stored twice, and
\* every search returns what the specification owes on the list as it was at
\* one single moment between the call and the return.
C1_NoLostNoTorn ==
    /\ Len(rows[SharedDb]) = Len(inserted[SharedDb])
    /\ \A i \in 1..Len(inserted[SharedDb]) :
           Cardinality({ k \in 1..Len(rows[SharedDb]) :
                            rows[SharedDb][k] = inserted[SharedDb][i] }) = 1
    /\ \A t \in Threads :
           /\ (thr[t].pc = "idle" /\ thr[t].done = "insert") =>
                  thr[t].ret[1] \in Range(rows[SharedDb])
           /\ (thr[t].pc = "idle" /\ thr[t].done = "search") =>
                  \E snap \in thr[t].snaps : thr[t].ret = SearchOf(snap, thr[t].topic)

\* C1 (as stated): the operations are mutually exclusive, so that no row is
\* lost and every search returns the rows of one single moment.
C1_Serialized == MutualExclusion /\ C1_NoLostNoTorn

\* A search returned a row that was appended by another thread after the search
\* had been called.
C1_Witness ==
    \E t \in Threads :
        /\ thr[t].pc = "idle" /\ thr[t].done = "search"
        /\ MemQuery(thr[t].topic) # <<>>
        /\ thr[t].ret # <<>>
        /\ thr[t].ret # SearchOf(thr[t].atCall, thr[t].topic)

---------------------------------------------------------------------------
(* Properties of the request handlers.                                     *)

\* A text that is empty after trimming.
Blank(t) == Strip(t) = <<>>

\* The remote store returned no row for the insert of the i-th text handled.
NoRowAt(remote, i) == remote[i] \in { "stored_no_row", "no_row" }

\* The last insert of the request got no row back.
WriteFailed(r) == Len(r.remote) > 0 /\ NoRowAt(r.remote, Len(r.remote))

\* C6: once a record has been inserted by an analyze request, a search whose
\* query equals one of its keywords in any letter case returns that record's id.
C6_RoundTrip ==
    response.kind = "search" =>
        \A i \in 1..Len(inserted[AnalyzeStore]) :
            LET r == inserted[AnalyzeStore][i]
            IN  (\E k \in Range(r.keywords) : Lower(k) = Lower(OrEmpty(response.topic))) =>
                    r.id \in IdSet(response.results)

\* The round trip on one InMemoryDB instance, where it does hold: the rows an
\* instance returned from insert_analysis are found by a search of that instance.
RoundTripOneInstance ==
    (lastCall.op = "search" /\ lastCall.db \in Instances) =>
        \A i \in 1..Len(inserted[lastCall.db]) :
            LET r == inserted[lastCall.db][i]
            IN  (\E k \in Range(r.keywords) : Lower(k) = Lower(OrEmpty(lastCall.topic))) =>
                    r.id \in IdSet(lastCall.ret)

\* The i-th result is the fallback analysis of text t.
IsFallback(res, t) ==
    /\ res.summary = "LLM unavailable. Summary could not be generated."
    /\ res.title = NONE
    /\ res.topics = <<s_general, s_unknown, s_llm_failure>>
    /\ res.sentiment = "neutral"
    /\ res.confidence = confidence_heuristic(t, FALSE)
    /\ res.confidence + 1000 = confidence_heuristic(t, TRUE)

\* C7: a failure of the language model on one text never aborts the request or
\* the other texts.  A request ends without results only for an empty text or a
\* failed storage write; otherwise every text has its result, in order, and the
\* result of a text the model failed on is stored and carries the fallback
\* values and a confidence without the bonus.
C7_LlmFailureIsolated ==
    /\ req.active => Len(req.results) = req.i - 1 /\ Len(req.llm) = req.i - 1
    /\ response.kind = "analyze" =>
        /\ response.status = 400 =>
               \/ response.items = <<>>
               \/ \E i \in 1..Len(response.items) : Blank(response.items[i])
        /\ response.status = 500 => WriteFailed(response)
        /\ response.status = 200 =>
               /\ Len(response.results) = Len(response.items)
               /\ Len(response.llm) = Len(response.items)
               /\ \A i \in 1..Len(response.items) :
                      /\ response.results[i].text = Strip(response.items[i])
                      /\ response.results[i] \in Range(Held(AnalyzeStore))
                      /\ ~response.llm[i] =>
                             IsFallback(response.results[i], Strip(response.items[i]))

\* A batch of two: the model failed on the first text and answered on the second,
\* and both are in the results.
C7_Witness ==
    /\ response.kind = "analyze" /\ response.status = 200
    /\ response.payload.items # None
    /\ Len(response.results) = 2
    /\ response.llm = <<FALSE, TRUE>>
    /\ response.results[1].topics = <<s_general, s_unknown, s_llm_failure>>
    /\ response.results[2].topics # <<s_general, s_unknown, s_llm_failure>>

\* The results are one per input text, in input order.
OnePerInput(results, inputs) ==
    /\ Len(results) = Len(inputs)
    /\ \A i \in 1..Len(inputs) : results[i].text = Strip(inputs[i])

\* C8 (as stated): a request with neither text nor items, an empty items list, a
\* text or item empty after trimming, or both text and items, is rejected with
\* 400; a request with exactly one non-empty form returns one result per input
\* text, in input order (a failed storage write aside).
C8_ExactlyOneForm ==
    response.kind = "analyze" =>
        LET p == response.payload
            invalid ==
                \/ p.text = None /\ p.items = None
                \/ p.items # None /\ p.items[1] = <<>>
                \/ p.text # None /\ Blank(p.text[1])
                \/ p.items # None /\ \E i \in 1..Len(p.items[1]) : Blank(p.items[1][i])
                \/ p.text # None /\ p.items # None
            inputs == IF p.items # None THEN p.items[1] ELSE <<OrEmpty(p.text)>>
        IN  ~WriteFailed(response) =>
                /\ invalid => response.status = 400
                /\ ~invalid => response.status = 200 /\ OnePerInput(response.results, inputs)

\* C8 (as amended): the request is handled in one form, items when items is
\* given and text otherwise.  With neither form, an empty items list, or a text
\* of the form used that is empty after trimming, it is rejected with 400 and no
\* results; a request with both text and items is handled as the items batch.
\* Otherwise it returns one result per text of the form used, in order.  (A
\* storage write that fails ends the request with 500 before either outcome.)
C8_AtLeastOneForm ==
    response.kind = "analyze" =>
        LET p == response.payload
            used == IF p.items # None THEN p.items[1]
                    ELSE IF p.text # None THEN <<p.text[1]>> ELSE <<>>
            invalid == used = <<>> \/ \E i \in 1..Len(used) : Blank(used[i])
        IN  /\ WriteFailed(response) => response.status = 500 /\ response.results = <<>>
            /\ ~WriteFailed(response) =>
                   /\ invalid => response.status = 400 /\ response.results = <<>>
                   /\ ~invalid => response.status = 200 /\ OnePerInput(response.results, used)

\* A request with both a text and a batch of two was answered 200 with the two
\* results of the batch.
C8_Witness ==
    /\ response.kind = "analyze" /\ response.status = 200
    /\ response.payload.text # None /\ response.payload.items # None
    /\ Len(response.results) = 2
    /\ OnePerInput(response.results, response.payload.items[1])

\* C9: when the remote store returns no row for an insert, insert_analysis
\* raises, and analyze ends the request there with a server error: the text is
\* not among the results and no later text is handled.
C9_WriteFailurePropagates ==
    /\ req.active => \A i \in 1..Len(req.remote) : ~NoRowAt(req.remote, i)
    /\ response.kind = "analyze" =>
           \A i \in 1..Len(response.remote) :
               NoRowAt(response.remote, i) =>
                   /\ response.status = 500
                   /\ response.detail = "RuntimeError"
                   /\ response.results = <<>>
                   /\ i = Len(response.remote)

\* The second text of a batch was stored by the remote store, which returned no
\* row; the request ended with a server error.
C9_Witness ==
    /\ response.kind = "analyze" /\ response.status = 500
    /\ response.remote = <<"row", "stored_no_row">>
    /\ Len(table) = 2
    /\ Len(inserted["supabase"]) = 1

\* C13: an analyze request answered 400 has inserted no record: the store the
\* analyze route writes to holds exactly the rows it held when the request
\* arrived, also when the empty item follows valid items of a batch.
C13_RejectedInsertsNothing ==
    response.kind = "analyze" /\ response.status = 400 =>
        Held(AnalyzeStore) = response.before

\* A request answered 400 whose texts were selected at lines 91-104 and whose
\* first text was not blank.
RejectedAfterValidItem ==
    /\ response.kind = "analyze" /\ response.status = 400
    /\ Len(response.items) = 2
    /\ ~Blank(response.items[1])
    /\ Blank(response.items[2])

\* What the code does with such a batch: the record of the first text is in the
\* store when the 400 is sent.
C13_PartialBatchStored ==
    RejectedAfterValidItem =>
        /\ Len(Held(AnalyzeStore)) = Len(response.before) + 1
        /\ SubSeq(Held(AnalyzeStore), 1, Len(response.before)) = response.before
        /\ Held(AnalyzeStore)[Len(Held(AnalyzeStore))].text = Strip(response.items[1])

====
